---- MODULE Spec2Model ----
(***************************************************************************)
(* A model of iris.py: the batch watermarking tool.                        *)
(*                                                                         *)
(*   main            parse_args, validate_options, WatermarkOptions,       *)
(*                   os.makedirs(output), process_images                   *)
(*   process_images  the loop over Path.rglob('*') with the suffix filter  *)
(*   add_watermark   decode, downsize, font, composite, makedirs, save     *)
(*                                                                         *)
(* The file system is a function from paths to nodes; a path is a sequence *)
(* of names relative to the working directory and a name is a sequence of  *)
(* characters, so that Path.suffix and str.lower are computed, not assumed.*)
(* The size arithmetic of the downsizing step is IEEE-754 binary64, as in  *)
(* CPython: significands are sequences of 53 bits.                         *)
(***************************************************************************)
EXTENDS Integers, Sequences, FiniteSets, TLC

\* Largest width, height and downsize_to explored by SpecDownsize.
MaxDim == 23

\* Longest path (in components) the file system accepts; a longer one makes
\* the system call fail with ENAMETOOLONG, as PATH_MAX does.
MaxPathLen == 5

\* The depth (the input directory is at depth 1) of the directories that the
\* recursive rglob generator cannot list for subdirectories any more, the
\* interpreter's recursion limit being reached (992 in CPython 3.11).
MaxDepth == 3

VARIABLES
    fs,        \* the file system: path -> node
    fs0,       \* the file system when the run began (history)
    env,       \* font files: [custom, system] -> "ok" | "corrupt" | "missing"
    args,      \* the command line (main) or the call's arguments (library use)
    entry,     \* "none" | "main" | "lib": how the run was started
    options,   \* the WatermarkOptions object, <<>> before construction
    pc,        \* "start" | "rejected" | "walk" | "done" | "raised"
    error,     \* the exception that left process_images, "" if none
    walker,    \* "recursive" | "walk" | "globber": the rglob of the interpreter
    stack,     \* the frames of the rglob generator (the directory being listed)
    paths,     \* iterative rglob: the stack of directories yet to scan
    yielded,   \* iterative rglob: the directory scanned and its subdirectories
    calls,     \* the add_watermark invocations, in order
    stdout,    \* what was printed
    dsIn,      \* SpecDownsize: the input <<width, height, downsize_to>>
    dsOut      \* SpecDownsize: the size computed, <<>> before

vars == <<fs, fs0, env, args, entry, options, pc, error, walker, stack, paths,
          yielded, calls, stdout, dsIn, dsOut>>

-----------------------------------------------------------------------------
(* Optional values: None is <<>>, a value v is <<v>>.                       *)

None == <<>>

Some(v) == <<v>>

\* Python truthiness of an optional int (None and 0 are falsy).
TruthyInt(o) == o # None /\ o[1] # 0

\* Python truthiness of an optional str (None and '' are falsy).
TruthyStr(o) == o # None /\ o[1] # ""

-----------------------------------------------------------------------------
(* IEEE-754 binary64 on positive values.  A float is [sig, exp]: sig is the *)
(* 53-bit significand, most significant bit first (sig[1] = 1), and the     *)
(* value is sig * 2^exp.  Operands are ints below 2^15, which the 32-bit    *)
(* integers of the checker hold; long sequences are cut into 13-bit limbs.  *)

SigBits == 53

\* A limb holds 13 bits.
Limb == 2 ^ 13

\* The value of the bit sequence s (at most 30 bits).
RECURSIVE BitsToInt(_)
BitsToInt(s) ==
    IF s = <<>> THEN 0
    ELSE 2 * BitsToInt(SubSeq(s, 1, Len(s) - 1)) + s[Len(s)]

\* The bits of n, without leading zeros.
RECURSIVE IntToBits(_)
IntToBits(n) == IF n = 0 THEN <<>> ELSE IntToBits(n \div 2) \o <<n % 2>>

\* The 13 bits of a limb v.
LimbToBits(v) == [i \in 1..13 |-> (v \div 2 ^ (13 - i)) % 2]

\* s + 1 on a bit sequence; carry = 1 when s was all ones.
IncBits(s) ==
    LET zeros == {i \in 1..Len(s) : s[i] = 0} IN
    IF zeros = {} THEN [bits |-> [i \in 1..Len(s) |-> 0], carry |-> 1]
    ELSE LET z == CHOOSE i \in zeros : \A j \in zeros : j <= i IN
         [bits  |-> [i \in 1..Len(s) |->
                        IF i < z THEN s[i] ELSE IF i = z THEN 1 ELSE 0],
          carry |-> 0]

\* Round to nearest, ties to even: bits (at least 53, bits[1] = 1) stand for
\* bits * 2^exp, and sticky says that non-zero digits follow them.
Round53(bits, sticky, exp) ==
    LET L     == Len(bits)
        keep  == SubSeq(bits, 1, SigBits)
        guard == IF L > SigBits THEN bits[SigBits + 1] ELSE 0
        rest  == sticky \/ \E i \in (SigBits + 2)..L : bits[i] = 1
        up    == guard = 1 /\ (rest \/ keep[SigBits] = 1)
        inc   == IncBits(keep)
    IN  IF ~up THEN [sig |-> keep, exp |-> exp + (L - SigBits)]
        ELSE IF inc.carry = 0
             THEN [sig |-> inc.bits, exp |-> exp + (L - SigBits)]
             ELSE [sig |-> <<1>> \o SubSeq(inc.bits, 1, SigBits - 1),
                   exp |-> exp + (L - SigBits) + 1]

\* Long division of r / b (0 <= r < b): the remainder after i quotient bits,
\* (r * 2^i) mod b, a limb at a time.
RECURSIVE RemAfter(_, _, _)
RemAfter(r, b, i) ==
    IF i < 13 THEN (r * 2 ^ i) % b
    ELSE RemAfter((r * Limb) % b, b, i - 13)

\* The i-th quotient bit of r / b.
DivBit(r, b, i) == IF 2 * RemAfter(r, b, i - 1) >= b THEN 1 ELSE 0

\* The least t >= 0 with a * 2^t >= b.
RECURSIVE ShiftUp(_, _)
ShiftUp(a, b) == IF a >= b THEN 0 ELSE 1 + ShiftUp(2 * a, b)

\* a / b for positive ints, correctly rounded (Python's int / int).
FDiv(a, b) ==
    LET t == ShiftUp(a, b)              \* a * 2^t >= b
        A == a * 2 ^ t
        u == ShiftUp(2 * b, A + 1)      \* the greatest u with b * 2^u <= A
        B == b * 2 ^ u                  \* B <= A < 2B: the quotient is in [1, 2)
        \* the leading 1, 52 fraction bits and a guard bit
        q == [i \in 1..(SigBits + 1) |->
                 IF i = 1 THEN 1 ELSE DivBit(A - B, B, i - 1)]
    IN  Round53(q, RemAfter(A - B, B, SigBits) # 0, u - t - SigBits)

\* s * n for a 53-bit sequence s and a positive int n: limb by limb from the
\* least significant one, with the carry.
MulBits(s, n) ==
    LET c1 == BitsToInt(SubSeq(s, 41, 53))
        c2 == BitsToInt(SubSeq(s, 28, 40))
        c3 == BitsToInt(SubSeq(s, 15, 27))
        c4 == BitsToInt(SubSeq(s, 2, 14))
        c5 == s[1]
        p1 == c1 * n
        p2 == c2 * n + p1 \div Limb
        p3 == c3 * n + p2 \div Limb
        p4 == c4 * n + p3 \div Limb
        p5 == c5 * n + p4 \div Limb
    IN  IntToBits(p5) \o LimbToBits(p4 % Limb) \o LimbToBits(p3 % Limb)
                      \o LimbToBits(p2 % Limb) \o LimbToBits(p1 % Limb)

\* n * x for a positive int n (exactly a float) and a float x.
FMulInt(n, x) == Round53(MulBits(x.sig, n), FALSE, x.exp)

\* p < q.
FLess(p, q) ==
    \/ p.exp < q.exp
    \/ /\ p.exp = q.exp
       /\ \E i \in 1..SigBits :
            /\ p.sig[i] < q.sig[i]
            /\ \A j \in 1..(i - 1) : p.sig[j] = q.sig[j]

\* Python's min(x, y): y only when y < x.
FMin(x, y) == IF FLess(y, x) THEN y ELSE x

\* int(x): truncation.
Trunc(x) ==
    IF x.exp >= 0 THEN BitsToInt(x.sig) * 2 ^ x.exp
    ELSE IF SigBits + x.exp <= 0 THEN 0
    ELSE BitsToInt(SubSeq(x.sig, 1, SigBits + x.exp))

-----------------------------------------------------------------------------
(* add_watermark, lines 34-40: the size the image is resized to.            *)

\* Whether the resize branch is taken.
Downsizes(w, h, downsize_to) ==
    TruthyInt(downsize_to) /\ (w > downsize_to[1] \/ h > downsize_to[1])

\* A faulty variant of NewSize: resized only when both dimensions exceed downsize_to.
NewSizeBothExceed(w, h, downsize_to) ==
    IF TruthyInt(downsize_to) /\ w > downsize_to[1] /\ h > downsize_to[1]
    THEN LET max_size == downsize_to[1]
             ratio    == FMin(FDiv(max_size, w), FDiv(max_size, h))
         IN  <<Trunc(FMulInt(w, ratio)), Trunc(FMulInt(h, ratio))>>
    ELSE <<w, h>>

\* The size passed to img.resize, or the size left alone.
NewSize(w, h, downsize_to) ==
    IF Downsizes(w, h, downsize_to)
    THEN LET max_size == downsize_to[1]
             ratio    == FMin(FDiv(max_size, w), FDiv(max_size, h))
         IN  <<Trunc(FMulInt(w, ratio)), Trunc(FMulInt(h, ratio))>>
    ELSE <<w, h>>

-----------------------------------------------------------------------------
(* Names and paths.  A name is a sequence of characters; a path is a        *)
(* sequence of names relative to the working directory (<<>> is '.').       *)

UpperLetters == <<"A","B","C","D","E","F","G","H","I","J","K","L","M",
                  "N","O","P","Q","R","S","T","U","V","W","X","Y","Z">>

LowerLetters == <<"a","b","c","d","e","f","g","h","i","j","k","l","m",
                  "n","o","p","q","r","s","t","u","v","w","x","y","z">>

\* str.lower on one character.
LowerChar(c) ==
    IF \E k \in 1..Len(UpperLetters) : UpperLetters[k] = c
    THEN LowerLetters[CHOOSE k \in 1..Len(UpperLetters) : UpperLetters[k] = c]
    ELSE c

\* str.lower.
Lower(s) == [i \in 1..Len(s) |-> LowerChar(s[i])]

\* pathlib's PurePath.suffix of a final component: from the last dot on,
\* unless that dot is the first or the last character.
Suffix(name) ==
    LET dots == {k \in 1..Len(name) : name[k] = "."} IN
    IF dots = {} THEN <<>>
    ELSE LET k == CHOOSE d \in dots : \A e \in dots : e <= d IN
         IF 1 < k /\ k < Len(name) THEN SubSeq(name, k, Len(name)) ELSE <<>>

\* The allow-list of process_images.
ImageSuffixes ==
    { <<".","j","p","g">>, <<".","j","p","e","g">>, <<".","p","n","g">>,
      <<".","b","m","p">>, <<".","t","i","f","f">> }

\* A faulty variant of Matches: the comparison without lower().
MatchesCaseSensitive(img_path) == Suffix(img_path[Len(img_path)]) \in ImageSuffixes

\* process_images, line 101: img_path.suffix.lower() in [...].
Matches(img_path) == Lower(Suffix(img_path[Len(img_path)])) \in ImageSuffixes

\* Whether path p lies strictly below path d.
Under(p, d) == Len(p) > Len(d) /\ SubSeq(p, 1, Len(d)) = d

\* img_path.relative_to(input_path).
RelativeTo(p, d) == SubSeq(p, Len(d) + 1, Len(p))

\* os.path.dirname of a path with at least one component.
Dirname(p) == SubSeq(p, 1, Len(p) - 1)

-----------------------------------------------------------------------------
(* The file system.                                                         *)

Dir == [kind |-> "dir"]

\* A file holding an image of the given format, size and mode; marks counts
\* the watermarks composited onto it.
ImageFile(fmt, w, h, mode, marks) ==
    [kind |-> "file", fmt |-> fmt, w |-> w, h |-> h, mode |-> mode, marks |-> marks]

\* A file whose bytes are no image (text, or nothing at all).
Garbage == [kind |-> "file", fmt |-> "", w |-> 0, h |-> 0, mode |-> "text", marks |-> 0]

EmptyFile == [kind |-> "file", fmt |-> "", w |-> 0, h |-> 0, mode |-> "empty", marks |-> 0]

Exists(f, p) == p = <<>> \/ p \in DOMAIN f

IsDir(f, p) == p = <<>> \/ (p \in DOMAIN f /\ f[p].kind = "dir")

\* os.scandir: the names in directory d.
Scandir(f, d) == {p[Len(p)] : p \in {q \in DOMAIN f : Len(q) = Len(d) + 1 /\ Under(q, d)}}

\* os.makedirs(d, exist_ok=True), one component after the other.
RECURSIVE MakeDirsFrom(_, _, _)
MakeDirsFrom(f, d, k) ==
    IF k > Len(d) THEN [fs |-> f, err |-> ""]
    ELSE LET p == SubSeq(d, 1, k) IN
         IF k > MaxPathLen THEN [fs |-> f, err |-> "OSError: File name too long"]
         ELSE IF p \notin DOMAIN f THEN MakeDirsFrom((p :> Dir) @@ f, d, k + 1)
         ELSE IF f[p].kind = "dir" THEN MakeDirsFrom(f, d, k + 1)
         ELSE IF k = Len(d) THEN [fs |-> f, err |-> "FileExistsError"]
         ELSE [fs |-> f, err |-> "NotADirectoryError"]

MakeDirs(f, d) == MakeDirsFrom(f, d, 1)

-----------------------------------------------------------------------------
(* Pillow.                                                                  *)

\* The modes each encoder accepts (Pillow's save handlers).
EncoderModes(fmt) ==
    CASE fmt = "JPEG" -> {"1", "L", "RGB", "RGBX", "CMYK", "YCbCr"}
      [] fmt = "PNG"  -> {"1", "L", "LA", "I", "P", "RGB", "RGBA"}
      [] fmt = "BMP"  -> {"1", "L", "P", "RGB", "RGBA"}
      [] fmt = "TIFF" -> {"1", "L", "LA", "I", "P", "RGB", "RGBA", "CMYK"}
      [] OTHER        -> {}

NoImage == [format |-> None, w |-> 0, h |-> 0, mode |-> "", marks |-> 0]

\* A faulty variant of ImageOpen: bytes that are no image decode to an empty image.
ImageOpenLenient(f, p) ==
    IF p \notin DOMAIN f THEN [err |-> "FileNotFoundError", img |-> NoImage]
    ELSE IF f[p].kind = "dir" THEN [err |-> "IsADirectoryError", img |-> NoImage]
    ELSE [err |-> "",
          img |-> [format |-> IF f[p].fmt = "" THEN None ELSE Some(f[p].fmt),
                   w |-> IF f[p].fmt = "" THEN 1 ELSE f[p].w,
                   h |-> IF f[p].fmt = "" THEN 1 ELSE f[p].h,
                   mode |-> f[p].mode, marks |-> f[p].marks]]

\* Image.open(p): the decoded image, or the exception.
ImageOpen(f, p) ==
    IF p \notin DOMAIN f THEN [err |-> "FileNotFoundError", img |-> NoImage]
    ELSE IF f[p].kind = "dir" THEN [err |-> "IsADirectoryError", img |-> NoImage]
    ELSE IF f[p].fmt = "" THEN [err |-> "UnidentifiedImageError", img |-> NoImage]
    ELSE [err |-> "",
          img |-> [format |-> Some(f[p].fmt), w |-> f[p].w, h |-> f[p].h,
                   mode |-> f[p].mode, marks |-> f[p].marks]]

\* img.convert('RGBA') when img.mode != 'RGBA' (lines 31-32).
ToRGBA(img) == IF img.mode # "RGBA" THEN [img EXCEPT !.mode = "RGBA"] ELSE img

\* result.save(p, fmt): Image.save opens (creates or truncates) the file, runs
\* the encoder, and on an encoder error removes the file if it created it;
\* encoder tells whether the encoder was handed the image.
ImageSave(f, p, fmt, img) ==
    IF Len(p) > MaxPathLen
    THEN [fs |-> f, err |-> "OSError: File name too long", encoder |-> FALSE]
    ELSE IF p \in DOMAIN f /\ f[p].kind = "dir"
    THEN [fs |-> f, err |-> "IsADirectoryError", encoder |-> FALSE]
    ELSE IF img.mode \notin EncoderModes(fmt)
    THEN [fs  |-> IF p \in DOMAIN f THEN [f EXCEPT ![p] = EmptyFile] ELSE f,
          err |-> "OSError: cannot write mode", encoder |-> TRUE]
    ELSE [fs  |-> (p :> ImageFile(fmt, img.w, img.h, img.mode, img.marks)) @@ f,
          err |-> "", encoder |-> TRUE]

-----------------------------------------------------------------------------
(* Fonts: env maps a font file to "ok", "corrupt" or "missing".             *)

SystemFont == "/System/Library/Fonts/STHeiti Medium.ttc"

\* ImageFont.truetype(path, size): the exception, or "".  A size that is not
\* positive is refused.
Truetype(e, path, size) ==
    IF e[path] = "missing" THEN "OSError: cannot open resource"
    ELSE IF e[path] = "corrupt" THEN "OSError: unknown file format"
    ELSE IF size <= 0 THEN "ValueError: font size must be greater than 0"
    ELSE ""

\* A faulty variant of LoadFont: no except clause.
LoadFontNoFallback(o, e) ==
    LET path == IF TruthyStr(o.font_path) THEN o.font_path[1] ELSE SystemFont
    IN  [err |-> Truetype(e, path, o.font_size), font |-> path]

\* add_watermark, lines 50-56: the font named by the options, else the system
\* font; on ANY exception of that, the system font.
LoadFont(o, e) ==
    LET path  == IF TruthyStr(o.font_path) THEN o.font_path[1] ELSE SystemFont
        first == Truetype(e, path, o.font_size)
    IN  IF first = "" THEN [err |-> "", font |-> path]
        ELSE [err |-> Truetype(e, SystemFont, o.font_size), font |-> SystemFont]

-----------------------------------------------------------------------------
(* Options.  Opacities are floats in the code; here they are counted in     *)
(* hundredths, so that 1.0 is OpacityOne.                                   *)

OpacityOne == 100

\* The default watermark text, four CJK characters, by their code points.
DefaultText == "U+7248 U+6743 U+6240 U+6709"

\* ShadowOptions.__init__ (lines 17-22): kwargs.get with the defaults.
ShadowOptions(kw) ==
    [offset_x |-> IF "offset_x" \in DOMAIN kw THEN kw.offset_x ELSE 3,
     offset_y |-> IF "offset_y" \in DOMAIN kw THEN kw.offset_y ELSE 3,
     blur     |-> IF "blur" \in DOMAIN kw THEN kw.blur ELSE 3,
     opacity  |-> IF "opacity" \in DOMAIN kw THEN kw.opacity ELSE 70]

\* WatermarkOptions.__init__ (lines 7-15): kwargs.get with the defaults, and
\* no check of any value.
WatermarkOptions(kw) ==
    [text        |-> IF "text" \in DOMAIN kw THEN kw.text ELSE DefaultText,
     font_path   |-> IF "font_path" \in DOMAIN kw THEN kw.font_path ELSE None,
     font_size   |-> IF "font_size" \in DOMAIN kw THEN kw.font_size ELSE 40,
     opacity     |-> IF "opacity" \in DOMAIN kw THEN kw.opacity ELSE 50,
     padding     |-> IF "padding" \in DOMAIN kw THEN kw.padding ELSE 20,
     shadow      |-> ShadowOptions(IF "shadow" \in DOMAIN kw THEN kw.shadow ELSE <<>>),
     downsize_to |-> IF "downsize_to" \in DOMAIN kw THEN kw.downsize_to ELSE None]

\* main, lines 148-161: the keyword arguments built from the parsed arguments.
OptionsKwargs(a) ==
    [text        |-> a.watermark,
     font_path   |-> a.font,
     font_size   |-> a.font_size,
     opacity     |-> a.opacity,
     padding     |-> a.padding,
     shadow      |-> [offset_x |-> a.shadow_offset_x,
                      offset_y |-> a.shadow_offset_y,
                      blur     |-> a.shadow_blur,
                      opacity  |-> a.shadow_opacity],
     downsize_to |-> a.downsize_to]

\* A faulty variant of ValidateOptions: the font check left out.
ValidateOptionsNoFont(f, e, a) ==
    IF ~Exists(f, a.input) THEN "Error: Input folder does not exist"
    ELSE IF ~(0 <= a.opacity /\ a.opacity <= OpacityOne)
            \/ ~(0 <= a.shadow_opacity /\ a.shadow_opacity <= OpacityOne)
         THEN "Error: Opacity values must be between 0 and 1"
    ELSE ""

\* A faulty variant of ValidateOptions: the opacity check left out.
ValidateOptionsNoOpacity(f, e, a) ==
    IF ~Exists(f, a.input) THEN "Error: Input folder does not exist"
    ELSE IF TruthyStr(a.font) /\ e[a.font[1]] = "missing"
         THEN "Error: Font file does not exist"
    ELSE ""

\* validate_options (lines 125-139): the message printed, "" when it returns
\* True.
ValidateOptions(f, e, a) ==
    IF ~Exists(f, a.input) THEN "Error: Input folder does not exist"
    ELSE IF ~(0 <= a.opacity /\ a.opacity <= OpacityOne)
            \/ ~(0 <= a.shadow_opacity /\ a.shadow_opacity <= OpacityOne)
         THEN "Error: Opacity values must be between 0 and 1"
    ELSE IF TruthyStr(a.font) /\ e[a.font[1]] = "missing"
         THEN "Error: Font file does not exist"
    ELSE ""

-----------------------------------------------------------------------------
(* add_watermark (lines 28-93).  The result is the record of the call: the  *)
(* file system it leaves, the exception that left it ("" if it returned),   *)
(* and what it did on the way.                                              *)

NoCall(image_path, output_path, f) ==
    [img |-> image_path, out |-> output_path, fs |-> f, err |-> "",
     stage |-> "open", src |-> NoImage, size |-> <<>>, font |-> "",
     enc |-> <<>>, wrote |-> FALSE]

\* Image.open(image_path).format or 'PNG' (line 92).
OriginalFormat(img) == IF TruthyStr(img.format) THEN img.format[1] ELSE "PNG"

AddWatermark(f, image_path, output_path, o, e) ==
    LET c0     == NoCall(image_path, output_path, f)
        opened == ImageOpen(f, image_path)
    IN
    IF opened.err # "" THEN [c0 EXCEPT !.err = opened.err]
    ELSE
    LET img      == ToRGBA(opened.img)
        new_size == NewSize(img.w, img.h, o.downsize_to)
        c1       == [c0 EXCEPT !.src = opened.img, !.size = new_size, !.stage = "resize"]
    IN
    \* img.resize refuses a size with a dimension that is not positive
    IF new_size[1] <= 0 \/ new_size[2] <= 0
    THEN [c1 EXCEPT !.err = "ValueError: height and width must be > 0"]
    ELSE
    LET resized == [img EXCEPT !.w = new_size[1], !.h = new_size[2]]
        loaded  == LoadFont(o, e)
        c2      == [c1 EXCEPT !.stage = "font"]
    IN
    IF loaded.err # "" THEN [c2 EXCEPT !.err = loaded.err]
    ELSE
    \* lines 58-88: the two layers drawn and composited; the result is RGBA
    LET result == [resized EXCEPT !.marks = @ + 1]
        c3     == [c2 EXCEPT !.font = loaded.font, !.stage = "makedirs"]
        \* os.makedirs(os.path.dirname(output_path)): dirname is '' for a path
        \* of one component, and os.makedirs('') raises
        made   == IF Len(output_path) <= 1
                  THEN [fs |-> f, err |-> "FileNotFoundError"]
                  ELSE MakeDirs(f, Dirname(output_path))
    IN
    IF made.err # "" THEN [c3 EXCEPT !.fs = made.fs, !.err = made.err]
    ELSE
    LET reopened        == ImageOpen(made.fs, image_path)
        original_format == OriginalFormat(reopened.img)
        saved           == ImageSave(made.fs, output_path, original_format, result)
    IN  [c3 EXCEPT !.fs = saved.fs, !.err = saved.err, !.stage = "save",
                   !.enc = IF saved.encoder THEN <<original_format, result.mode>>
                                             ELSE <<>>,
                   !.wrote = (saved.err = "")]

-----------------------------------------------------------------------------
(* process_images (lines 95-106) over pathlib's rglob('*'), a lazy          *)
(* generator.  Which walk it makes depends on the interpreter.               *)
(*  - "recursive", up to CPython 3.11: for each directory, it lists it and   *)
(*    yields every entry, then lists it again and does the same in each      *)
(*    subdirectory, one generator nested in the other, so that a             *)
(*    subdirectory is finished with all below it before the next.            *)
(*  - "walk", CPython 3.12, over Path.walk: after the entries of a           *)
(*    directory, it lists the directory again and yields the entries of each *)
(*    of its subdirectories, pushes the subdirectories in reverse on a       *)
(*    stack, and goes on with the one popped: the first listed.              *)
(*  - "globber", CPython 3.13 on, glob's select_recursive_step: as "walk",   *)
(*    but the subdirectories are pushed in the order listed, so that the     *)
(*    one popped is the last listed.                                         *)
(* All list in the order of the system.                                      *)

Top == stack[Len(stack)]

SetTop(fr) == [stack EXCEPT ![Len(stack)] = fr]

\* The wildcard selector on directory d: it is listed once, and the entries
\* of that listing are yielded one by one.
Frame(f, d) == [dir |-> d, phase |-> "entries", todo |-> Scandir(f, d)]

\* The subdirectories among the entries of d.
Subdirs(f, d) == {n \in Scandir(f, d) : IsDir(f, d \o <<n>>)}

\* The orders in which the system may list the names of S.
Orders(S) ==
    {s \in [1..Cardinality(S) -> S] : \A i, j \in DOMAIN s : s[i] = s[j] => i = j}

Reverse(s) == [i \in 1..Len(s) |-> s[Len(s) + 1 - i]]

NoYield == [dir |-> <<>>, names |-> <<>>, rest |-> <<>>]

\* A faulty variant of LoopContinues: the exception caught and the loop continued.
LoopContinuesAlways(res) == TRUE

\* The loop has no try: it goes on only when add_watermark returned.
LoopContinues(res) == res.err = ""

\* The first step of process_images on file system f: rglob's select_from
\* yields nothing unless the input path is a directory; otherwise the input
\* path is the first starting point, and Path.walk (iterative rglob) starts
\* with it as the only directory to scan.
StartWalk(f, input_path) ==
    IF IsDir(f, input_path)
    THEN /\ pc' = "walk"
         /\ stack' = <<Frame(f, input_path)>>
         /\ paths' = IF walker = "recursive" THEN <<>> ELSE <<input_path>>
         /\ yielded' = NoYield
    ELSE /\ pc' = "done"
         /\ stack' = <<>>
         /\ paths' = <<>>
         /\ yielded' = NoYield

\* The loop body on an entry that passes the suffix filter.
ProcessEntry ==
    /\ pc = "walk" /\ Top.phase = "entries"
    /\ \E n \in Top.todo :
        LET img_path      == Top.dir \o <<n>>
            relative_path == RelativeTo(img_path, args.input)
            output_file   == args.output \o relative_path
            res           == AddWatermark(fs, img_path, output_file, options[1], env)
        IN  /\ Matches(img_path)
            /\ stdout' = Append(stdout, <<"Processing:", img_path>>)
            /\ fs' = res.fs
            /\ calls' = Append(calls, [res EXCEPT !.fs = <<>>])
            /\ IF LoopContinues(res)
               THEN /\ stack' = SetTop([Top EXCEPT !.todo = @ \ {n}])
                    /\ UNCHANGED <<pc, error, paths, yielded>>
               ELSE /\ pc' = "raised"
                    /\ error' = res.err
                    /\ stack' = <<>>
                    /\ paths' = <<>>
                    /\ yielded' = NoYield
    /\ UNCHANGED <<fs0, env, args, entry, options, walker, dsIn, dsOut>>

\* The loop body on an entry that does not.
SkipEntry ==
    /\ pc = "walk" /\ Top.phase = "entries"
    /\ \E n \in Top.todo :
        /\ ~Matches(Top.dir \o <<n>>)
        /\ stack' = SetTop([Top EXCEPT !.todo = @ \ {n}])
    /\ UNCHANGED <<fs, fs0, env, args, entry, options, pc, error, walker, paths,
                   yielded, calls, stdout, dsIn, dsOut>>

\* Recursive rglob, _iterate_directories after the entries of a directory
\* were yielded: the directory is listed again, for its subdirectories.  At
\* the depth where the nested generators reach the recursion limit, this
\* listing raises RecursionError, which leaves the for statement of
\* process_images, whether or not the directory has a subdirectory.
ScanSubdirs ==
    /\ pc = "walk" /\ walker = "recursive"
    /\ Top.phase = "entries" /\ Top.todo = {}
    /\ IF Len(stack) < MaxDepth
       THEN /\ stack' = SetTop([Top EXCEPT !.phase = "subdirs",
                                           !.todo  = Subdirs(fs, Top.dir)])
            /\ UNCHANGED <<pc, error>>
       ELSE /\ stack' = <<>>
            /\ pc' = "raised"
            /\ error' = "RecursionError"
    /\ UNCHANGED <<fs, fs0, env, args, entry, options, walker, paths, yielded,
                   calls, stdout, dsIn, dsOut>>

\* Recursive rglob: _iterate_directories calls itself on a subdirectory, one
\* generator inside the other; the subdirectory is listed.
Descend ==
    /\ pc = "walk" /\ walker = "recursive" /\ Top.phase = "subdirs"
    /\ \E n \in Top.todo :
        stack' = Append(SetTop([Top EXCEPT !.todo = @ \ {n}]),
                        Frame(fs, Top.dir \o <<n>>))
    /\ UNCHANGED <<fs, fs0, env, args, entry, options, pc, error, walker, paths,
                   yielded, calls, stdout, dsIn, dsOut>>

\* Recursive rglob: a directory is exhausted; the generator ends with the
\* last one.
Return ==
    /\ pc = "walk" /\ walker = "recursive"
    /\ Top.phase = "subdirs" /\ Top.todo = {}
    /\ stack' = SubSeq(stack, 1, Len(stack) - 1)
    /\ pc' = IF Len(stack) = 1 THEN "done" ELSE "walk"
    /\ UNCHANGED <<fs, fs0, env, args, entry, options, error, walker, paths,
                   yielded, calls, stdout, dsIn, dsOut>>

\* Iterative rglob: the next of the subdirectories of the directory scanned
\* is a starting point, which the wildcard selector lists.
YieldDir ==
    /\ pc = "walk" /\ walker # "recursive"
    /\ Top.todo = {} /\ yielded.rest # <<>>
    /\ stack' = <<Frame(fs, yielded.dir \o <<Head(yielded.rest)>>)>>
    /\ yielded' = [yielded EXCEPT !.rest = Tail(@)]
    /\ UNCHANGED <<fs, fs0, env, args, entry, options, pc, error, walker, paths,
                   calls, stdout, dsIn, dsOut>>

\* The stack of the iterative rglob once the subdirectories children of the
\* directory scanned were all yielded: Path.walk appends them reversed,
\* select_recursive_step has appended each after yielding it.
Pushed(w, stk, children) ==
    stk \o (IF w = "walk" THEN Reverse(children) ELSE children)

\* Iterative rglob, after the subdirectories of the directory scanned were
\* all yielded: they are on the stack; the last of the stack is popped and
\* listed, and its subdirectories are yielded in the order listed; with
\* nothing to pop the walk ends.
WalkNext ==
    /\ pc = "walk" /\ walker # "recursive"
    /\ Top.todo = {} /\ yielded.rest = <<>>
    /\ LET pushed == Pushed(walker, paths,
                            [i \in 1..Len(yielded.names) |->
                                yielded.dir \o <<yielded.names[i]>>])
       IN  IF pushed = <<>>
           THEN /\ pc' = "done"
                /\ stack' = <<>>
                /\ paths' = <<>>
                /\ yielded' = NoYield
           ELSE LET path == pushed[Len(pushed)] IN
                /\ \E dirnames \in Orders(Subdirs(fs, path)) :
                     yielded' = [dir |-> path, names |-> dirnames, rest |-> dirnames]
                /\ paths' = SubSeq(pushed, 1, Len(pushed) - 1)
                /\ UNCHANGED <<pc, stack>>
    /\ UNCHANGED <<fs, fs0, env, args, entry, options, error, walker, calls,
                   stdout, dsIn, dsOut>>

-----------------------------------------------------------------------------
(* main (lines 141-167) and the library's use (as the tests call it).       *)

\* main: validate_options, WatermarkOptions, os.makedirs(output),
\* process_images.
MainOn(a) ==
    LET msg == ValidateOptions(fs, env, a) IN
    /\ args' = a
    /\ entry' = "main"
    /\ IF msg # ""
       THEN /\ stdout' = Append(stdout, <<msg>>)
            /\ pc' = "rejected"
            /\ UNCHANGED <<fs, options, error, stack, paths, yielded>>
       ELSE LET made == MakeDirs(fs, a.output) IN
            /\ options' = Some(WatermarkOptions(OptionsKwargs(a)))
            /\ fs' = made.fs
            /\ stdout' = stdout
            /\ IF made.err # ""
               THEN /\ pc' = "raised"
                    /\ error' = made.err
                    /\ stack' = <<>>
                    /\ paths' = <<>>
                    /\ yielded' = NoYield
               ELSE /\ StartWalk(made.fs, a.input)
                    /\ error' = error
    /\ UNCHANGED <<fs0, env, walker, calls, dsIn, dsOut>>

\* A test or another program: WatermarkOptions(**kw), then
\* process_images(input, output, options).
LibraryOn(a, kw) ==
    /\ args' = a
    /\ entry' = "lib"
    /\ options' = Some(WatermarkOptions(kw))
    /\ StartWalk(fs, a.input)
    /\ UNCHANGED <<fs, fs0, env, error, walker, calls, stdout, dsIn, dsOut>>

-----------------------------------------------------------------------------
(* The inputs explored.                                                     *)

N_in == <<"i","n">>

N_nope == <<"n","o","p","e">>

N_out == <<"o","u","t">>

N_sub == <<"s","u","b">>

N_a_png == <<"a",".","p","n","g">>

N_b_JPG == <<"b",".","J","P","G">>

N_c_txt == <<"c",".","t","x","t">>

N_dot_bmp == <<".","b","m","p">>

N_e_tiff == <<"e",".","t","i","f","f">>

CustomFont == "custom.ttf"

\* The function with the given set of <<path, node>> pairs as its graph.
Tree(S) == [p \in {e[1] : e \in S} |-> (CHOOSE e \in S : e[1] = p)[2]]

\* The input trees: a directory "in" with, each present or not and with one of
\* a few contents, a.png, b.JPG, c.txt or the hidden file .bmp, and sub/e.tiff.
Trees ==
    { Tree({<<<<N_in>>, Dir>>} \cup A \cup B \cup C \cup S) :
        A \in { {}, {<<<<N_in, N_a_png>>, ImageFile("PNG", 4, 3, "RGBA", 0)>>},
                    {<<<<N_in, N_a_png>>, Garbage>>} },
        B \in { {}, {<<<<N_in, N_b_JPG>>, ImageFile("JPEG", 5, 2, "RGB", 0)>>},
                    {<<<<N_in, N_b_JPG>>, ImageFile("BMP", 5, 2, "RGB", 0)>>} },
        C \in { {<<<<N_in, N_c_txt>>, ImageFile("PNG", 4, 3, "RGB", 0)>>},
                {<<<<N_in, N_dot_bmp>>, ImageFile("BMP", 4, 3, "RGB", 0)>>} },
        S \in { {}, {<<<<N_in, N_sub>>, Dir>>,
                     <<<<N_in, N_sub, N_e_tiff>>, ImageFile("TIFF", 1, 5, "RGBA", 0)>>} } }

\* The font files: the custom one and the system one.
Envs ==
    { (CustomFont :> cs[1]) @@ (SystemFont :> cs[2]) :
        cs \in { <<"ok", "missing">>, <<"corrupt", "ok">>, <<"missing", "ok">> } }

Arguments(input, output, text, font, font_size, opacity, shadow_opacity, downsize_to) ==
    [input |-> input, output |-> output, watermark |-> text, font |-> font,
     font_size |-> font_size, opacity |-> opacity, padding |-> 20,
     shadow_offset_x |-> 3, shadow_offset_y |-> 3, shadow_blur |-> 3,
     shadow_opacity |-> shadow_opacity, downsize_to |-> downsize_to]

\* Output roots: apart from the input, the input itself, inside the input,
\* and the working directory.
Outputs == { <<N_out>>, <<N_in>>, <<N_in, N_out>>, <<>> }

Fonts == { None, Some(CustomFont) }

\* Argument lists that differ in where the output goes, the font and the
\* downsizing: every font and downsizing with the output apart from the
\* input, the default font elsewhere, no downsizing inside the input.
PlainCases ==
    { a \in { Arguments(<<N_in>>, out, "wm", f, 40, 50, 70, d) :
                out \in Outputs, f \in Fonts, d \in { None, Some(3) } } :
        \/ a.output = <<N_out>>
        \/ a.font = None /\ (a.downsize_to = None \/ a.output # <<N_in, N_out>>) }

\* Argument lists with a zero font size and an empty text.
DegenerateCases ==
    { Arguments(<<N_in>>, <<N_out>>, "", f, 0, 50, 70, None) : f \in Fonts }

\* Argument lists that differ in the input and the two opacities.
EdgeCases ==
    { Arguments(i, <<N_out>>, "wm", f, 40, op[1], op[2], None) :
        i \in { <<N_in>>, <<N_nope>> }, f \in Fonts,
        op \in { <<0, 100>>, <<150, 70>>, <<50, -20>> } }

ArgCases == PlainCases \cup DegenerateCases \cup EdgeCases

\* The calls of the library explored: those that write outside the input or
\* inside it, with the default font, a usable font size and no downsizing.
LibCases ==
    { a \in ArgCases : /\ a.output \in { <<N_out>>, <<N_in, N_out>> }
                       /\ a.font = None
                       /\ a.font_size > 0
                       /\ a.downsize_to = None }

\* Keyword arguments a caller may pass: those main would, none, or a few.
KwargCases(a) ==
    {OptionsKwargs(a)}
    \cup (IF a.output = <<N_out>> /\ a.font = None /\ a.downsize_to = None
             /\ a.font_size = 40 /\ a.opacity = 50 /\ a.input = <<N_in>>
          THEN { <<>>, [text |-> "Custom", shadow |-> [offset_x |-> 5]] }
          ELSE {})

-----------------------------------------------------------------------------
(* The specification of a run.                                              *)

Init ==
    /\ fs0 \in Trees
    /\ fs = fs0
    /\ env \in Envs
    /\ args = <<>>
    /\ entry = "none"
    /\ options = None
    /\ pc = "start"
    /\ error = ""
    /\ walker \in {"recursive", "walk", "globber"}
    /\ stack = <<>>
    /\ paths = <<>>
    /\ yielded = NoYield
    /\ calls = <<>>
    /\ stdout = <<>>
    /\ dsIn = <<>>
    /\ dsOut = <<>>

Main == pc = "start" /\ \E a \in ArgCases : MainOn(a)

Library == pc = "start" /\ \E a \in LibCases : \E kw \in KwargCases(a) : LibraryOn(a, kw)

Next ==
    \/ Main
    \/ Library
    \/ ProcessEntry
    \/ SkipEntry
    \/ ScanSubdirs
    \/ Descend
    \/ Return
    \/ YieldDir
    \/ WalkNext

Spec == Init /\ [][Next]_vars

-----------------------------------------------------------------------------
(* The specification of the downsizing arithmetic alone: every width and    *)
(* height up to MaxDim, with downsize_to unset, 0, or up to MaxDim.         *)

InitDownsize ==
    /\ dsIn \in { <<w, h, d>> : w \in 1..MaxDim, h \in 1..MaxDim,
                  d \in {None} \cup {Some(k) : k \in 0..MaxDim} }
    /\ dsOut = <<>>
    /\ fs0 = <<>> /\ fs = <<>> /\ env = <<>> /\ args = <<>>
    /\ entry = "none" /\ options = None /\ pc = "resize" /\ error = ""
    /\ walker = "recursive" /\ stack = <<>> /\ paths = <<>> /\ yielded = NoYield
    /\ calls = <<>> /\ stdout = <<>>

Resize ==
    /\ pc = "resize" /\ dsOut = <<>>
    /\ dsOut' = NewSize(dsIn[1], dsIn[2], dsIn[3])
    /\ UNCHANGED <<fs, fs0, env, args, entry, options, pc, error, walker, stack,
                   paths, yielded, calls,
                   stdout, dsIn>>

NextDownsize == Resize

SpecDownsize == InitDownsize /\ [][NextDownsize]_vars

-----------------------------------------------------------------------------
(* The properties.                                                          *)

Calls == 1..Len(calls)

Last(p) == p[Len(p)]

Started == entry # "none"

ImageExtensions ==
    { <<"j","p","g">>, <<"j","p","e","g">>, <<"p","n","g">>, <<"b","m","p">>,
      <<"t","i","f","f">> }

\* The name is a non-empty stem, a dot, and an extension without a dot that
\* is, in lower case, one of the five.
HasImageExtension(name) ==
    \E k \in 2..(Len(name) - 1) :
        /\ name[k] = "."
        /\ \A j \in (k + 1)..Len(name) : name[j] # "."
        /\ Lower(SubSeq(name, k + 1, Len(name))) \in ImageExtensions

\* C1: add_watermark is invoked only on entries under the input root whose
\* extension is, case-insensitively, one of jpg, jpeg, png, bmp, tiff, each
\* with the output root joined with its relative path as the output path;
\* when process_images returns, every such entry of the input tree has been
\* invoked; an entry with another extension is never invoked and no file is
\* written at its place under the output root.
WalkerSelectsImages ==
    Started =>
        /\ \A i \in Calls :
            /\ Under(calls[i].img, args.input)
            /\ HasImageExtension(Last(calls[i].img))
            /\ calls[i].out = args.output \o RelativeTo(calls[i].img, args.input)
        /\ pc = "done" =>
            \A p \in DOMAIN fs0 :
                (Under(p, args.input) /\ HasImageExtension(Last(p)))
                    => \E i \in Calls : calls[i].img = p
        /\ \A p \in DOMAIN fs :
            (Under(p, args.input) /\ ~HasImageExtension(Last(p))) =>
                LET q == args.output \o RelativeTo(p, args.input) IN
                /\ \A i \in Calls : calls[i].img # p /\ calls[i].out # q
                /\ \/ q \notin DOMAIN fs
                   \/ fs[q].kind = "dir"
                   \/ (q \in DOMAIN fs0 /\ fs[q] = fs0[q])

\* C1's case: a run that returned after processing b.JPG and sub/e.tiff, with
\* outputs mirrored under out, and that passed over c.txt.
WalkerSelectsImagesWitness ==
    /\ pc = "done"
    /\ <<N_in, N_c_txt>> \in DOMAIN fs
    /\ <<N_out, N_c_txt>> \notin DOMAIN fs
    /\ \E i, j \in Calls :
        /\ calls[i].img = <<N_in, N_b_JPG>>
        /\ calls[i].out = <<N_out, N_b_JPG>>
        /\ calls[j].img = <<N_in, N_sub, N_e_tiff>>
        /\ <<N_out, N_sub, N_e_tiff>> \in DOMAIN fs

\* The size C2 expects of the output.
ExpectedSize(w, h, downsize_to) ==
    IF downsize_to = None \/ (w <= downsize_to[1] /\ h <= downsize_to[1])
    THEN <<w, h>>
    ELSE NewSize(w, h, downsize_to)

\* C2: for every image add_watermark processes (it handed the result to the
\* encoder), the output file read back has the source's format tag and the
\* expected final size.
OutputKeepsFormatAndSize ==
    \A i \in Calls :
        calls[i].enc # <<>> =>
            /\ calls[i].out \in DOMAIN fs
            /\ fs[calls[i].out].kind = "file"
            /\ fs[calls[i].out].fmt = OriginalFormat(calls[i].src)
            /\ <<fs[calls[i].out].w, fs[calls[i].out].h>>
                 = ExpectedSize(calls[i].src.w, calls[i].src.h, options[1].downsize_to)

Max(a, b) == IF a >= b THEN a ELSE b

Abs(a) == IF a >= 0 THEN a ELSE -a

\* |w/h - nw/nh| < 0.01, without division.
RatioWithinTolerance(w, h, nw, nh) ==
    nh > 0 /\ 100 * Abs(w * nh - nw * h) < h * nh

\* C3 as stated: with a positive downsize_to below max(width, height) neither
\* dimension grows and the ratio stays within 0.01; with downsize_to unset or
\* at least max(width, height) the size is unchanged.
DownsizeKeepsRatio ==
    dsOut # <<>> =>
        LET w == dsIn[1]
            h == dsIn[2]
            d == dsIn[3]
        IN  IF d # None /\ d[1] > 0 /\ d[1] < Max(w, h)
            THEN /\ dsOut[1] <= w
                 /\ dsOut[2] <= h
                 /\ RatioWithinTolerance(w, h, dsOut[1], dsOut[2])
            ELSE (d = None \/ d[1] >= Max(w, h)) => dsOut = <<w, h>>

\* n is x * d / m rounded down, or one less.
ScaledDown(n, x, d, m) == m * n <= x * d /\ x * d <= m * (n + 1)

\* C3 as amended: with a positive downsize_to below max(width, height)
\* neither dimension grows, neither exceeds downsize_to, and each is the
\* exactly scaled dimension rounded down, or one pixel less; with downsize_to
\* unset or at least max(width, height) the size is unchanged.
DownsizeNeverGrows ==
    dsOut # <<>> =>
        LET w == dsIn[1]
            h == dsIn[2]
            d == dsIn[3]
        IN  IF d # None /\ d[1] > 0 /\ d[1] < Max(w, h)
            THEN /\ dsOut[1] <= w /\ dsOut[1] <= d[1]
                 /\ dsOut[2] <= h /\ dsOut[2] <= d[1]
                 /\ ScaledDown(dsOut[1], w, d[1], Max(w, h))
                 /\ ScaledDown(dsOut[2], h, d[1], Max(w, h))
            ELSE (d = None \/ d[1] >= Max(w, h)) => dsOut = <<w, h>>

\* C3's case: a downsizing whose larger dimension comes out one pixel short
\* of downsize_to (the float product falls just below the integer).
DownsizeNeverGrowsWitness ==
    /\ dsOut # <<>>
    /\ dsIn[3] # None
    /\ dsIn[1] > dsIn[3][1]
    /\ dsIn[1] >= dsIn[2]
    /\ dsOut[1] = dsIn[3][1] - 1

\* The formats whose files carry an alpha channel.
AlphaFormats == {"PNG", "BMP", "TIFF"}

\* C4: the encoder of a format without alpha is never handed an image with
\* an alpha channel.
EncoderNeverGetsAlpha ==
    \A i \in Calls :
        (calls[i].enc # <<>> /\ calls[i].enc[1] \notin AlphaFormats)
            => calls[i].enc[2] \notin {"RGBA", "LA"}

\* C5: an add_watermark that raised is the last one invoked, its exception is
\* the one that left process_images, and the outputs written before it are
\* in place.
ErrorEndsBatch ==
    \A i \in Calls :
        calls[i].err # "" =>
            /\ i = Len(calls)
            /\ pc = "raised"
            /\ error = calls[i].err
            /\ \A j \in 1..(i - 1) :
                /\ calls[j].wrote
                /\ calls[j].out \in DOMAIN fs
                /\ fs[calls[j].out].kind = "file"
                /\ fs[calls[j].out].marks = calls[j].src.marks + 1

\* C5's case: a batch ended by an exception after two files were written.
ErrorEndsBatchWitness ==
    /\ pc = "raised"
    /\ Len(calls) = 3
    /\ calls[3].err # ""
    /\ calls[1].wrote /\ calls[2].wrote

\* C6: a step in which add_watermark is invoked on a file with an image
\* extension whose bytes are no image raises and leaves the file system as it
\* was.
UndecodableLeavesNoOutput ==
    [][ (/\ Len(calls') = Len(calls) + 1
         /\ calls'[Len(calls')].img \in DOMAIN fs
         /\ fs[calls'[Len(calls')].img].kind = "file"
         /\ fs[calls'[Len(calls')].img].fmt = ""
         /\ HasImageExtension(Last(calls'[Len(calls')].img)))
        => (/\ calls'[Len(calls')].err # ""
            /\ error' = calls'[Len(calls')].err
            /\ pc' = "raised"
            /\ fs' = fs) ]_vars

\* C6's case: add_watermark raised on a.png, whose bytes are no image.
UndecodableLeavesNoOutputWitness ==
    /\ pc = "raised"
    /\ \E i \in Calls :
        /\ calls[i].img = <<N_in, N_a_png>>
        /\ calls[i].err = "UnidentifiedImageError"
        /\ fs0[calls[i].img] = Garbage

\* The conditions C7 names.
ArgumentsAcceptable ==
    /\ Exists(fs0, args.input)
    /\ 0 <= args.opacity /\ args.opacity <= OpacityOne
    /\ 0 <= args.shadow_opacity /\ args.shadow_opacity <= OpacityOne
    /\ args.font # None => env[args.font[1]] # "missing"

\* C7: main creates the output folder and calls process_images exactly when
\* the input path exists, both opacities are in [0,1] and the font path, if
\* given, exists; otherwise it prints one error and returns with nothing
\* created and no file processed.
MainValidates ==
    entry = "main" =>
        IF ArgumentsAcceptable
        THEN /\ pc \in {"walk", "done", "raised"}
             /\ IsDir(fs, args.output)
             /\ options # None
             /\ \A k \in 1..Len(stdout) : stdout[k][1] = "Processing:"
             /\ pc = "raised" => calls # <<>>
        ELSE /\ pc = "rejected"
             /\ fs = fs0
             /\ calls = <<>>
             /\ options = None
             /\ Len(stdout) = 1
             /\ stdout[1][1] \in {"Error: Input folder does not exist",
                                  "Error: Opacity values must be between 0 and 1",
                                  "Error: Font file does not exist"}

\* C7's case: main accepted a zero font size and an empty text, created the
\* output folder and called process_images.
MainValidatesWitness ==
    /\ entry = "main"
    /\ args.font_size = 0
    /\ args.watermark = ""
    /\ args.output = <<N_out>>
    /\ <<N_out>> \in DOMAIN fs
    /\ calls # <<>>

\* The font the options name: font_path, else the default.
NamedFont == IF TruthyStr(options[1].font_path) THEN options[1].font_path[1] ELSE SystemFont

FontFails(path) == Truetype(env, path, options[1].font_size) # ""

\* C8 as stated: when the font the options name cannot be loaded, the
\* add_watermark that reached the font set-up raises and the batch ends.
FontFailureRaises ==
    \A i \in Calls :
        (calls[i].stage \in {"font", "makedirs", "save"} /\ FontFails(NamedFont))
            => (calls[i].err # "" /\ pc = "raised")

\* C8 as amended: when the font the options name cannot be loaded,
\* add_watermark loads the system font instead and goes on with it; it raises
\* at the font set-up, ending the batch, only when the system font cannot be
\* loaded either.
FontFailureFallsBack ==
    \A i \in Calls :
        (calls[i].stage \in {"font", "makedirs", "save"} /\ FontFails(NamedFont)) =>
            IF FontFails(SystemFont)
            THEN /\ calls[i].stage = "font"
                 /\ calls[i].err # ""
                 /\ pc = "raised" /\ i = Len(calls)
            ELSE /\ calls[i].stage # "font"
                 /\ calls[i].font = SystemFont

\* C8's case: the custom font named by the options is corrupt, and
\* add_watermark wrote its output with the system font.
FontFailureFallsBackWitness ==
    \E i \in Calls :
        /\ options[1].font_path = Some(CustomFont)
        /\ env[CustomFont] = "corrupt"
        /\ calls[i].font = SystemFont
        /\ calls[i].wrote

OpacitiesInRange(o) ==
    /\ 0 <= o.opacity /\ o.opacity <= OpacityOne
    /\ 0 <= o.shadow.opacity /\ o.shadow.opacity <= OpacityOne

\* C9 as stated: every WatermarkOptions object has both opacities in [0,1].
OptionsAlwaysInRange == options # None => OpacitiesInRange(options[1])

\* C9 as amended: the WatermarkOptions object main constructs has both
\* opacities in [0,1], and no step changes an object once constructed.
MainOptionsInRange ==
    /\ [](entry = "main" /\ options # None => OpacitiesInRange(options[1]))
    /\ [][options # None => options' = options]_vars

\* C9's case: main constructed options with the boundary values 0 and 1 and
\* add_watermark ran with them.
MainOptionsInRangeWitness ==
    /\ entry = "main"
    /\ options # None
    /\ options[1].opacity = 0
    /\ options[1].shadow.opacity = OpacityOne
    /\ calls # <<>>

\* C10: add_watermark is invoked only on files that existed when the run
\* began, never twice on one, never on a file this run wrote; and when
\* process_images returns, every matching file that existed has been invoked.
WalkerSkipsOwnOutput ==
    Started =>
        /\ \A i \in Calls :
            /\ calls[i].img \in DOMAIN fs0
            /\ \A j \in 1..(i - 1) :
                /\ calls[j].img # calls[i].img
                /\ calls[j].wrote => calls[j].out # calls[i].img
        /\ pc = "done" =>
            \A p \in DOMAIN fs0 :
                (Under(p, args.input) /\ Matches(p)) => \E i \in Calls : calls[i].img = p

====
